---- MODULE Spec2Model ----
(***************************************************************************)
(* Model of the PI-CAI inference backend: the /predict handler of          *)
(* backend/main.py and the pipeline run_picai_inference of                 *)
(* backend/inference.py, over a shared filesystem, with the container      *)
(* runtime and the model image as an opaque environment.                   *)
(*                                                                         *)
(* Paths are sequences of path components; file names and messages are     *)
(* strings.  Voxel values are in hundredths (60 stands for 0.6).           *)
(***************************************************************************)
EXTENDS Integers, Sequences, FiniteSets, TLC

(* ------------------------------ bounds --------------------------------- *)

\* number of request slots (concurrent /predict calls)
NumReqs == 2

Reqs == 1..NumReqs

(* --------------------------- program constants ------------------------- *)

\* inference.py:106  timeout=300
timeout == 300

\* inference.py:137  pred_array > 0.5  (hundredths)
threshold == 50

\* inference.py:72
case_id == "case_001"

\* main.py:68
valid_extensions == <<".mha", ".nii.gz", ".nii">>

\* the three modalities, in the order the code iterates them
\* (main.py:69, main.py:77, inference.py:82)
Modalities == <<"t2w", "adc", "hbv">>

ModalitySet == {Modalities[i] : i \in DOMAIN Modalities}

(* ------------------------------ strings -------------------------------- *)

\* str.endswith
EndsWith(s, suffix) ==
    /\ Len(s) >= Len(suffix)
    /\ SubSeq(s, Len(s) - Len(suffix) + 1, Len(s)) = suffix

\* main.py:70  any(file.filename.endswith(ext) for ext in valid_extensions)
ValidFilename(filename) ==
    \E i \in DOMAIN valid_extensions : EndsWith(filename, valid_extensions[i])

(* ------------------------------- paths --------------------------------- *)

\* pathlib: p / name
Join(p, name) == Append(p, name)

\* pathlib: p.parent
Parent(p) == SubSeq(p, 1, Len(p) - 1)

\* p is q or lies below q
Under(p, q) == Len(p) >= Len(q) /\ SubSeq(p, 1, Len(q)) = q

\* last component of a path
Name(p) == p[Len(p)]

\* tempfile.mkdtemp names: one per request slot is enough, the handler
\* makes one directory per request
TempName(i) == "tmp" \o ToString(i)

TempDirs == {<<"tmp", TempName(i)>> : i \in Reqs}

NoPath == <<>>

(* --------------------------- permission bits --------------------------- *)

RWX == {"r", "w", "x"}

\* stat.S_IRWXU | stat.S_IRWXG | stat.S_IRWXO
S_IRWXUGO == [u |-> RWX, g |-> RWX, o |-> RWX]

\* process umasks the server may run under: 022 (the usual default) and 000
Umasks == { [u |-> {}, g |-> {"w"}, o |-> {"w"}],
            [u |-> {}, g |-> {},    o |-> {}] }

\* mode of a directory made by Path.mkdir(): 0o777 & ~umask
MkdirMode(um) == [u |-> RWX \ um.u, g |-> RWX \ um.g, o |-> RWX \ um.o]

\* mode of a directory made by tempfile.mkdtemp(): 0o700
MkdtempMode == [u |-> RWX, g |-> {}, o |-> {}]

(* ------------------------------ state ---------------------------------- *)

VARIABLES
    umask,            \* the server process's umask
    dirs,             \* filesystem: directory path -> mode
    files,            \* filesystem: file path -> [by, who, data]
    request,          \* per slot: the multipart request the client sends
    behaviours,       \* what the installed model image can do when run
    pc,               \* per slot: position in predict / run_picai_inference
    temp_dir,         \* main.py:64
    file_paths,       \* main.py:78   modality -> saved upload path
    probe,            \* outcome of check_docker_available()
    input_files,      \* inference.py:75   modality -> staged path
    mounts,           \* inference.py:95-96   the -v arguments of docker run
    proc,             \* the docker run child process
    invocations,      \* number of docker run processes started
    result,           \* inference.py:102   CompletedProcess, or the exception
    prediction_path,  \* inference.py:126
    pred_array,       \* inference.py:131
    logged,           \* container streams written to the log (inference.py:110,113)
    outcome,          \* what run_picai_inference returned or raised
    response,         \* the HTTP response of /predict
    stages            \* history: pipeline stages entered, in order

vars == <<umask, dirs, files, request, behaviours, pc, temp_dir, file_paths, probe,
          input_files, mounts, proc, invocations, result, prediction_path,
          pred_array, logged, outcome, response, stages>>

(* --------------------------- values and inputs ------------------------- *)

\* file names a client may give an upload (UploadFile.filename)
FileNames == {"a.mha", "b.nii.gz", "c.nii", "d.mha.txt"}

\* voxel arrays of a prediction volume, in hundredths
Volumes == { <<0, 0>>, <<60, 60>>, <<10, 100, 40>> }

\* what the container prints
StdoutTexts == {"", "inference done"}
StderrTexts == {"", "CUDA out of memory"}

NoRequest == [present |-> FALSE]

\* a multipart request: a file name per modality, and whether the bytes
\* uploaded for it are an image SimpleITK can read
Requests ==
    [present : {TRUE},
     filename : [ModalitySet -> FileNames],
     readable : [ModalitySet -> BOOLEAN]]

\* requests of the concurrent specification: well-formed uploads
ConcRequests ==
    { q \in Requests :
        /\ \A m \in ModalitySet : q.readable[m]
        /\ q.filename = [t2w |-> "a.mha", adc |-> "b.nii.gz", hbv |-> "c.nii"] }

\* files a run of the model image may leave, as paths below /output
DetectionMap == <<"images", "cspca-detection-map", "cspca_detection_map.mha">>

OutputLayouts ==
    { {},
      {DetectionMap},
      {DetectionMap, <<"cspca-case-level-likelihood.json">>},
      {<<"prediction.mha">>},
      {<<"prediction.nii.gz">>},
      {<<"prediction.mha">>, <<"prediction.nii.gz">>} }

\* how long a run of the container takes, in seconds, around the bound
Runtimes == {timeout - 1, timeout + 1}

\* a run of the model image: its duration, exit code, output streams, the
\* files it leaves and whether they hold a readable volume
Behaviours ==
    [runtime : Runtimes,
     returncode : {0, 1},
     stdout : StdoutTexts,
     stderr : StderrTexts,
     layout : OutputLayouts,
     ok : BOOLEAN,
     vol : Volumes]
    \ {b \in [runtime : Runtimes, returncode : {0, 1}, stdout : StdoutTexts,
               stderr : StderrTexts, layout : OutputLayouts, ok : {FALSE},
               vol : Volumes] : b.vol # <<0, 0>>}

\* the runs of the concurrent specification
ConcBehaviours ==
    { b \in Behaviours :
        /\ b.stdout = "inference done"
        /\ b.vol = <<60, 60>>
        /\ b.ok
        /\ \/ b.returncode = 0 /\ b.stderr = ""
              /\ b.layout \in { {DetectionMap}, {<<"prediction.mha">>} }
           \/ b.returncode = 1 /\ b.stderr = "CUDA out of memory"
              /\ b.layout = {} }

\* how the runtime's version query can end (docker --version)
ProbeOutcomes == {"zero", "nonzero", "missing", "oserror", "hang"}

NoProc == [state |-> "none", runtime |-> 0, elapsed |-> 0]

NoResult == [kind |-> "none", returncode |-> 0, stdout |-> "", stderr |-> ""]

NoBundle == [status |-> "none"]

NoOutcome == [kind |-> "none", exc |-> "", msg |-> "", bundle |-> NoBundle]

NoResponse == [status_code |-> 0, detail |-> "", content |-> NoBundle]

NoMounts == [input |-> NoPath, output |-> NoPath]

\* the bytes of request r's upload for modality m
UploadData(r, m) ==
    [origin |-> r, what |-> m, ok |-> request[r].readable[m], vol |-> <<0>>]

\* a file record: who wrote it (slot and component) and what it holds
FileRec(r, who, data) == [by |-> r, who |-> who, data |-> data]

\* open(path, 'wb') / sitk.WriteImage: create or overwrite
WriteFile(fs, path, rec) == (path :> rec) @@ fs

\* Path.mkdir(parents=True, exist_ok=True): the directory and its missing
\* ancestors get the default mode; existing directories keep theirs
RECURSIVE Mkdirs(_, _, _)
Mkdirs(ds, path, um) ==
    IF path = <<>> \/ path \in DOMAIN ds THEN ds
    ELSE (path :> MkdirMode(um)) @@ Mkdirs(ds, Parent(path), um)

\* os.chmod(path, mode)
Chmod(ds, path, mode) == [ds EXCEPT ![path] = mode]

(* ------------------------------- Init ---------------------------------- *)

InitCommon ==
    /\ umask \in Umasks
    /\ dirs = (<<"tmp">> :> S_IRWXUGO)
    /\ files = << >>
    /\ pc = [r \in Reqs |-> IF request[r].present THEN "start" ELSE "idle"]
    /\ temp_dir = [r \in Reqs |-> NoPath]
    /\ file_paths = [r \in Reqs |-> << >>]
    /\ probe = [r \in Reqs |-> "none"]
    /\ input_files = [r \in Reqs |-> << >>]
    /\ mounts = [r \in Reqs |-> NoMounts]
    /\ proc = [r \in Reqs |-> NoProc]
    /\ invocations = [r \in Reqs |-> 0]
    /\ result = [r \in Reqs |-> NoResult]
    /\ prediction_path = [r \in Reqs |-> NoPath]
    /\ pred_array = [r \in Reqs |-> << >>]
    /\ logged = [r \in Reqs |-> << >>]
    /\ outcome = [r \in Reqs |-> NoOutcome]
    /\ response = [r \in Reqs |-> NoResponse]
    /\ stages = [r \in Reqs |-> << >>]

\* one request in flight, every input
Init ==
    /\ behaviours = Behaviours
    /\ \E q \in Requests :
         request = [r \in Reqs |-> IF r = 1 THEN q ELSE NoRequest]
    /\ InitCommon

\* every slot holds a request, well-formed uploads
InitConc ==
    /\ behaviours = ConcBehaviours
    /\ request \in [Reqs -> ConcRequests]
    /\ InitCommon

(* ------------------------- the /predict handler ------------------------ *)

\* str(e) of an exception
\* (starlette's HTTPException.__str__ gives "<status_code>: <detail>")
Str(e) ==
    IF e.exc = "HTTPException" THEN ToString(e.status_code) \o ": " \o e.msg
    ELSE e.msg

Exc(type, msg) == [exc |-> type, status_code |-> 0, msg |-> msg]

HTTPException(status_code, detail) ==
    [exc |-> "HTTPException", status_code |-> status_code, msg |-> detail]

\* main.py:99-101  except Exception as e: raise HTTPException(500, str(e))
ExceptHandler(e) ==
    [status_code |-> 500, detail |-> Str(e), content |-> NoBundle]

\* main.py:97  return JSONResponse(content=result)
JSONResponse(content) ==
    [status_code |-> 200, detail |-> "", content |-> content]

\* main.py:69-74  the first upload, in order, whose name has no valid
\* extension; 0 if every name is valid
RECURSIVE FirstInvalid(_, _)
FirstInvalid(q, i) ==
    IF i > Len(Modalities) THEN 0
    ELSE IF ~ValidFilename(q.filename[Modalities[i]]) THEN i
    ELSE FirstInvalid(q, i + 1)

\* a mkdtemp that hands out one fixed directory
SharedTempDir(ds) == {<<"tmp", TempName(1)>>}

\* tempfile.mkdtemp: a directory under /tmp that did not exist before
FreshTempDirs(ds) == TempDirs \ DOMAIN ds

\* main.py:64-65  temp_dir = tempfile.mkdtemp()
Predict_mkdtemp(r) ==
    /\ pc[r] = "start"
    /\ \E d \in FreshTempDirs(dirs) :
         /\ temp_dir' = [temp_dir EXCEPT ![r] = d]
         /\ dirs' = (d :> MkdtempMode) @@ dirs
    /\ pc' = [pc EXCEPT ![r] = "validate"]
    /\ UNCHANGED <<umask, files, request, behaviours, file_paths, probe, input_files,
                   mounts, proc, invocations, result, prediction_path,
                   pred_array, logged, outcome, response, stages>>

\* main.py:67-74  validate file extensions; the HTTPException(400) is raised
\* inside the try block, so main.py:99-101 catches it
Predict_validate(r) ==
    /\ pc[r] = "validate"
    /\ LET i == FirstInvalid(request[r], 1) IN
         IF i = 0
         THEN /\ pc' = [pc EXCEPT ![r] = "save_" \o Modalities[1]]
              /\ UNCHANGED response
         ELSE /\ response' = [response EXCEPT ![r] =
                    ExceptHandler(HTTPException(400,
                        "Invalid file format for "
                        \o request[r].filename[Modalities[i]]
                        \o ". Use .mha or .nii.gz"))]
              /\ pc' = [pc EXCEPT ![r] = "done"]
    /\ UNCHANGED <<umask, dirs, files, request, behaviours, temp_dir, file_paths, probe,
                   input_files, mounts, proc, invocations, result,
                   prediction_path, pred_array, logged, outcome, stages>>

\* main.py:80-85  one iteration of the loop that saves the uploads
Predict_save(r, i) ==
    /\ pc[r] = "save_" \o Modalities[i]
    /\ LET key == Modalities[i]
           file_path == Join(temp_dir[r], request[r].filename[key])
       IN /\ files' = WriteFile(files, file_path,
                                FileRec(r, "predict", UploadData(r, key)))
          /\ file_paths' = [file_paths EXCEPT ![r] = (key :> file_path) @@ @]
    /\ pc' = [pc EXCEPT ![r] = IF i < Len(Modalities)
                               THEN "save_" \o Modalities[i + 1]
                               ELSE "probe"]
    /\ UNCHANGED <<umask, dirs, request, behaviours, temp_dir, probe, input_files,
                   mounts, proc, invocations, result, prediction_path,
                   pred_array, logged, outcome, response, stages>>

(* ------------------------- run_picai_inference ------------------------- *)

\* an exception leaves run_picai_inference and reaches main.py:99-101
Raise(r, e) ==
    /\ outcome' = [outcome EXCEPT ![r] =
            [kind |-> "raised", exc |-> e.exc, msg |-> e.msg, bundle |-> NoBundle]]
    /\ response' = [response EXCEPT ![r] = ExceptHandler(e)]
    /\ pc' = [pc EXCEPT ![r] = "done"]

\* inference.py:20-29  subprocess.run(["docker", "--version"], check=True)
\* with CalledProcessError and FileNotFoundError caught, and no timeout
check_docker_available(query) ==
    CASE query = "zero"     -> "True"
      [] query = "nonzero"  -> "False"
      [] query = "missing"  -> "False"
      [] query = "oserror"  -> "raised"
      [] query = "hang"     -> "blocked"

\* inference.py:57
input_dir(r) == Join(Join(temp_dir[r], "input"), "images")

\* inference.py:58
output_path(r) == Join(temp_dir[r], "output")

\* inference.py:76-78  f"{case_id}_{modality}.mha"
StagedName(m) == case_id \o "_" \o m \o ".mha"

\* inference.py:95  input_dir.parent.parent
InputMount(r) == Parent(Parent(input_dir(r)))

\* inference.py:96
OutputMount(r) == output_path(r)

\* a reader that accepts any file that exists
CanReadAlways(fs, path) == path \in DOMAIN fs

\* sitk.ReadImage succeeds on a file that exists and holds a readable volume
CanRead(fs, path) == path \in DOMAIN fs /\ fs[path].data.ok

\* inference.py:53-54
Pipeline_probe(r) ==
    /\ pc[r] = "probe"
    /\ stages' = [stages EXCEPT ![r] = Append(@, "probe")]
    /\ \E query \in ProbeOutcomes :
         LET available == check_docker_available(query) IN
         /\ probe' = [probe EXCEPT ![r] = available]
         /\ CASE available = "True" ->
                   /\ pc' = [pc EXCEPT ![r] = "mkdirs"]
                   /\ UNCHANGED <<outcome, response>>
              [] available = "False" ->
                   Raise(r, Exc("RuntimeError",
                         "Docker is not available. Please install Docker."))
              [] available = "raised" ->
                   Raise(r, Exc("PermissionError",
                         "[Errno 13] Permission denied: 'docker'"))
              [] available = "blocked" ->
                   /\ pc' = [pc EXCEPT ![r] = "blocked"]
                   /\ UNCHANGED <<outcome, response>>
    /\ UNCHANGED <<umask, dirs, files, request, behaviours, temp_dir,
                   file_paths, input_files, mounts, proc, invocations,
                   result, prediction_path, pred_array, logged>>

\* inference.py:56-68  the directory trees and their permissions
MakeTrees(ds, r, um) ==
    LET made == Mkdirs(Mkdirs(Mkdirs(ds, input_dir(r), um), output_path(r), um),
                       Join(Join(output_path(r), "images"), "cspca-detection-map"),
                       um)
    IN Chmod(Chmod(made, output_path(r), S_IRWXUGO),
             Join(output_path(r), "images"), S_IRWXUGO)

\* inference.py:56-79
Pipeline_mkdirs(r) ==
    /\ pc[r] = "mkdirs"
    /\ stages' = [stages EXCEPT ![r] = Append(@, "stage")]
    /\ dirs' = MakeTrees(dirs, r, umask)
    /\ input_files' = [input_files EXCEPT ![r] =
            [m \in ModalitySet |-> Join(input_dir(r), StagedName(m))]]
    /\ pc' = [pc EXCEPT ![r] = "stage_" \o Modalities[1]]
    /\ UNCHANGED <<umask, files, request, behaviours, temp_dir, file_paths,
                   probe, mounts, proc, invocations, result, prediction_path,
                   pred_array, logged, outcome, response>>

\* inference.py:82-85  one iteration of the staging loop
Pipeline_stage(r, i) ==
    /\ pc[r] = "stage_" \o Modalities[i]
    /\ LET modality == Modalities[i]
           src_path == file_paths[r][modality]
       IN IF CanRead(files, src_path)
          THEN /\ files' = WriteFile(files, input_files[r][modality],
                                     FileRec(r, "pipeline", files[src_path].data))
               /\ pc' = [pc EXCEPT ![r] = IF i < Len(Modalities)
                                          THEN "stage_" \o Modalities[i + 1]
                                          ELSE "launch"]
               /\ UNCHANGED <<outcome, response>>
          ELSE /\ Raise(r, Exc("RuntimeError",
                        "Exception thrown in SimpleITK ImageFileReader_Execute"))
               /\ UNCHANGED files
    /\ UNCHANGED <<umask, dirs, request, behaviours, temp_dir, file_paths,
                   probe, input_files, mounts, proc, invocations, result,
                   prediction_path, pred_array, logged, stages>>

\* a wait with no bound
TimedOutNever(p) == FALSE

\* subprocess.run(..., timeout=300): the wait is cut at the bound
\* (inference.py:102-107)
TimedOut(p) == p.runtime > timeout

\* inference.py:115-118  the except clauses around the container run
RunErrorHandler(e) ==
    IF e.exc = "TimeoutExpired"
    THEN Exc("RuntimeError", "Docker inference timed out after 5 minutes")
    ELSE Exc("RuntimeError", "Error running Docker: " \o Str(e))

\* the files a run b of the model image leaves below the directory mounted
\* at /output
ContainerWrites(fs, r, b) ==
    [p \in {mounts[r].output \o rel : rel \in b.layout} |->
        FileRec(r, "container",
                [origin |-> r, what |-> "pred", ok |-> b.ok, vol |-> b.vol])]
    @@ fs

\* inference.py:90-107  build the command and start docker run
Pipeline_launch(r) ==
    /\ pc[r] = "launch"
    /\ stages' = [stages EXCEPT ![r] = Append(@, "execute")]
    /\ mounts' = [mounts EXCEPT ![r] =
            [input |-> InputMount(r), output |-> OutputMount(r)]]
    /\ \/ \* the docker executable cannot be started
          /\ Raise(r, RunErrorHandler(Exc("FileNotFoundError",
                   "[Errno 2] No such file or directory: 'docker'")))
          /\ UNCHANGED <<proc, invocations>>
       \/ \E t \in {b.runtime : b \in behaviours} :
            /\ proc' = [proc EXCEPT ![r] =
                    [state |-> "running", runtime |-> t, elapsed |-> 0]]
            /\ invocations' = [invocations EXCEPT ![r] = @ + 1]
            /\ pc' = [pc EXCEPT ![r] = "wait"]
            /\ UNCHANGED <<outcome, response>>
    /\ UNCHANGED <<umask, dirs, files, request, behaviours, temp_dir,
                   file_paths, probe, input_files, result, prediction_path,
                   pred_array, logged>>

\* inference.py:102-118  the blocking wait on the container and its outcome
Pipeline_wait(r) ==
    /\ pc[r] = "wait"
    /\ \E b \in behaviours :
         /\ b.runtime = proc[r].runtime
         /\ files' = ContainerWrites(files, r, b)
         /\ IF TimedOut(proc[r])
            THEN \* subprocess.run kills the child and raises TimeoutExpired
                 /\ proc' = [proc EXCEPT ![r].state = "killed",
                                         ![r].elapsed = timeout]
                 /\ result' = [result EXCEPT ![r] =
                        [kind |-> "TimeoutExpired", returncode |-> 0 - 9,
                         stdout |-> b.stdout, stderr |-> b.stderr]]
                 /\ Raise(r, RunErrorHandler(Exc("TimeoutExpired",
                          "Command timed out after 300 seconds")))
                 /\ UNCHANGED logged
            ELSE /\ proc' = [proc EXCEPT ![r].state = "exited",
                                         ![r].elapsed = proc[r].runtime]
                 /\ result' = [result EXCEPT ![r] =
                        [kind |-> "CompletedProcess", returncode |-> b.returncode,
                         stdout |-> b.stdout, stderr |-> b.stderr]]
                 /\ IF b.returncode # 0
                    THEN /\ logged' = [logged EXCEPT ![r] =
                                Append(@, "Docker stderr: " \o b.stderr)]
                         /\ Raise(r, RunErrorHandler(Exc("RuntimeError",
                                  "Docker inference failed: " \o b.stderr)))
                    ELSE /\ logged' = [logged EXCEPT ![r] =
                                Append(@, "Docker stdout: " \o b.stdout)]
                         /\ pc' = [pc EXCEPT ![r] = "resolve"]
                         /\ UNCHANGED <<outcome, response>>
    /\ UNCHANGED <<umask, dirs, request, behaviours, temp_dir, file_paths,
                   probe, input_files, mounts, invocations, prediction_path,
                   pred_array, stages>>

\* Path.glob("*" + suffix): the entries directly in directory d whose name
\* ends in suffix
Glob(fs, d, suffix) ==
    {p \in DOMAIN fs : Parent(p) = d /\ EndsWith(Name(p), suffix)}

\* inference.py:121-126  prediction_files[0]: the .mha matches come first,
\* each list in directory-scan order, which is arbitrary
FirstPrediction(fs, d) ==
    IF Glob(fs, d, ".mha") # {} THEN Glob(fs, d, ".mha")
    ELSE Glob(fs, d, ".nii.gz")

\* inference.py:120-127
Pipeline_resolve(r) ==
    /\ pc[r] = "resolve"
    /\ stages' = [stages EXCEPT ![r] = Append(@, "resolve")]
    /\ IF FirstPrediction(files, output_path(r)) = {}
       THEN /\ Raise(r, Exc("RuntimeError",
                     "No prediction file found in output directory"))
            /\ UNCHANGED prediction_path
       ELSE /\ \E p \in FirstPrediction(files, output_path(r)) :
                 prediction_path' = [prediction_path EXCEPT ![r] = p]
            /\ pc' = [pc EXCEPT ![r] = "load"]
            /\ UNCHANGED <<outcome, response>>
    /\ UNCHANGED <<umask, dirs, files, request, behaviours, temp_dir,
                   file_paths, probe, input_files, mounts, proc, invocations,
                   result, pred_array, logged>>

\* inference.py:129-131
Pipeline_load(r) ==
    /\ pc[r] = "load"
    /\ stages' = [stages EXCEPT ![r] = Append(@, "load")]
    /\ IF CanRead(files, prediction_path[r])
       THEN /\ pred_array' = [pred_array EXCEPT ![r] =
                    files[prediction_path[r]].data.vol]
            /\ pc' = [pc EXCEPT ![r] = "summarize"]
            /\ UNCHANGED <<outcome, response>>
       ELSE /\ Raise(r, Exc("RuntimeError",
                     "Exception thrown in SimpleITK ImageFileReader_Execute"))
            /\ UNCHANGED pred_array
    /\ UNCHANGED <<umask, dirs, files, request, behaviours, temp_dir,
                   file_paths, probe, input_files, mounts, proc, invocations,
                   result, prediction_path, logged>>

RECURSIVE Sum(_)
Sum(a) == IF a = << >> THEN 0 ELSE a[1] + Sum(Tail(a))

Max(a) == CHOOSE v \in {a[i] : i \in DOMAIN a} : \A i \in DOMAIN a : a[i] <= v

\* statistics that leave out the voxel count
StatisticsNoTotal(a) ==
    [mean_probability |-> <<Sum(a), Len(a)>>,
     max_probability  |-> Max(a),
     positive_voxels  |-> Cardinality({i \in DOMAIN a : a[i] > threshold})]

\* inference.py:134-139  (the mean is kept as the exact fraction sum / size)
Statistics(a) ==
    [mean_probability |-> <<Sum(a), Len(a)>>,
     max_probability  |-> Max(a),
     positive_voxels  |-> Cardinality({i \in DOMAIN a : a[i] > threshold}),
     total_voxels     |-> Len(a)]

\* inference.py:141-148
Bundle(r, stats) ==
    [status          |-> "success",
     prediction_path |-> prediction_path[r],
     t2w_path        |-> input_files[r]["t2w"],
     adc_path        |-> input_files[r]["adc"],
     hbv_path        |-> input_files[r]["hbv"],
     statistics      |-> stats]

\* inference.py:133-148 and main.py:96-97
Pipeline_summarize(r) ==
    /\ pc[r] = "summarize"
    /\ stages' = [stages EXCEPT ![r] = Append(@, "summarize")]
    /\ LET b == Bundle(r, Statistics(pred_array[r])) IN
         /\ outcome' = [outcome EXCEPT ![r] =
                [kind |-> "returned", exc |-> "", msg |-> "", bundle |-> b]]
         /\ response' = [response EXCEPT ![r] = JSONResponse(b)]
    /\ pc' = [pc EXCEPT ![r] = "done"]
    /\ UNCHANGED <<umask, dirs, files, request, behaviours, temp_dir,
                   file_paths, probe, input_files, mounts, proc, invocations,
                   result, prediction_path, pred_array, logged>>

(* ---------------------------- specification ---------------------------- *)

Next ==
    \E r \in Reqs :
        \/ Predict_mkdtemp(r)
        \/ Predict_validate(r)
        \/ \E i \in DOMAIN Modalities : Predict_save(r, i)
        \/ Pipeline_probe(r)
        \/ Pipeline_mkdirs(r)
        \/ \E i \in DOMAIN Modalities : Pipeline_stage(r, i)
        \/ Pipeline_launch(r)
        \/ Pipeline_wait(r)
        \/ Pipeline_resolve(r)
        \/ Pipeline_load(r)
        \/ Pipeline_summarize(r)

Spec == Init /\ [][Next]_vars

SpecConc == InitConc /\ [][Next]_vars

(* ------------------------------- claims -------------------------------- *)

StageOrder == <<"probe", "stage", "execute", "resolve", "load", "summarize">>

\* C1: the stages of a run happen in the order probe, stage, execute,
\* resolve, load, summarize and stop at the first failure; a container is
\* started only after the probe returned true and all three modalities were
\* staged from readable sources; success is returned only after exit code 0
\* and a resolved output file.
C1_StageOrder ==
    \A r \in Reqs :
        /\ Len(stages[r]) <= Len(StageOrder)
        /\ stages[r] = SubSeq(StageOrder, 1, Len(stages[r]))
        /\ outcome[r].kind = "raised" => pc[r] = "done"
        /\ invocations[r] > 0 =>
              /\ probe[r] = "True"
              /\ \A m \in ModalitySet :
                    /\ files[file_paths[r][m]].data.ok
                    /\ input_files[r][m] \in DOMAIN files
                    /\ files[input_files[r][m]].who = "pipeline"
        /\ outcome[r].kind = "returned" =>
              /\ stages[r] = StageOrder
              /\ result[r].kind = "CompletedProcess"
              /\ result[r].returncode = 0
              /\ prediction_path[r] \in DOMAIN files

C1_Witness ==
    \E r \in Reqs : outcome[r].kind = "returned" /\ invocations[r] = 1

\* a path of the host as the container sees it through docker run -v
\* mount:target
ContainerView(mount, target, p) ==
    IF Under(p, mount)
    THEN <<target>> \o SubSeq(p, Len(mount) + 1, Len(p))
    ELSE NoPath

\* C2: the directory mounted at /input directly contains the images subtree
\* with the three staged files, each visible in the container as
\* /input/images/<case_id>_<modality>.mha, and the workspace's output
\* directory is mounted at /output.
C2_MountLayout ==
    \A r \in Reqs :
        mounts[r].input # NoPath =>
            /\ Join(mounts[r].input, "images") \in DOMAIN dirs
            /\ \A m \in ModalitySet :
                 ContainerView(mounts[r].input, "/input", input_files[r][m])
                    = <<"/input", "images", StagedName(m)>>
            /\ mounts[r].output = output_path(r)

\* the files with an accepted output extension anywhere below directory d
OutputFilesBelow(fs, d) ==
    {p \in DOMAIN fs :
        /\ Under(p, d)
        /\ EndsWith(Name(p), ".mha") \/ EndsWith(Name(p), ".nii.gz")}

\* C3: when the container exited with code 0 and left exactly one .mha or
\* .nii.gz file anywhere below the output directory, that file is the
\* prediction_path and the run does not fail with output-not-found.
C3_OutputTreeScanned ==
    \A r \in Reqs :
        ( /\ pc[r] \in {"load", "summarize", "done"}
          /\ result[r].kind = "CompletedProcess"
          /\ result[r].returncode = 0
          /\ Cardinality(OutputFilesBelow(files, output_path(r))) = 1 )
        => /\ prediction_path[r] \in OutputFilesBelow(files, output_path(r))
           /\ outcome[r].msg # "No prediction file found in output directory"

\* C4: a container still running when the 300 s bound elapses is killed at
\* the bound, the run ends classified as timed out and never as succeeded,
\* failed or still running, the timeout reaches the caller as an error,
\* and the container is invoked once.
C4_TimeoutTerminal ==
    \A r \in Reqs :
        /\ invocations[r] <= 1
        /\ proc[r].elapsed <= timeout
        /\ (proc[r].state # "none" /\ proc[r].runtime > timeout) =>
              IF pc[r] = "wait"
              THEN proc[r].state = "running" /\ proc[r].elapsed = 0
              ELSE /\ pc[r] = "done"
                   /\ proc[r].state = "killed"
                   /\ proc[r].elapsed = timeout
                   /\ result[r].kind = "TimeoutExpired"
                   /\ outcome[r].kind = "raised"
                   /\ outcome[r].msg = "Docker inference timed out after 5 minutes"
                   /\ response[r].status_code = 500
                   /\ invocations[r] = 1

C4_Witness ==
    \E r \in Reqs : proc[r].state = "killed" /\ pc[r] = "done"

\* text occurs in s
Contains(s, text) ==
    \E i \in 1..(Len(s) - Len(text) + 1) : SubSeq(s, i, i + Len(text) - 1) = text

\* C5: for every outcome of a container invocation (zero exit, non-zero
\* exit, timeout) the captured standard output and standard error are kept
\* verbatim in what the run yields: its result or the error it raises.
C5_StreamsKept ==
    \A r \in Reqs :
        (pc[r] = "done" /\ result[r].kind # "none") =>
            \A text \in {result[r].stdout, result[r].stderr} :
                \/ text = ""
                \/ Contains(outcome[r].msg, text)

\* C6: the availability probe never raises: however the version query
\* ends, it returns True or False.
C6_ProbeNeverRaises ==
    \A r \in Reqs : probe[r] \in {"none", "True", "False"}

BundleFields ==
    {"status", "prediction_path", "t2w_path", "adc_path", "hbv_path", "statistics"}

StatisticsFields ==
    {"mean_probability", "max_probability", "positive_voxels", "total_voxels"}

FullBundle(b) ==
    /\ DOMAIN b = BundleFields
    /\ b.status = "success"
    /\ DOMAIN b.statistics = StatisticsFields

\* C7: there is no partial success: a run either raises and returns no
\* bundle, or returns a bundle with status "success" and every field of the
\* result schema, statistics included.
C7_NoPartialSuccess ==
    \A r \in Reqs :
        /\ outcome[r].kind = "raised" =>
              outcome[r].bundle = NoBundle /\ response[r].content = NoBundle
        /\ outcome[r].kind = "returned" => FullBundle(outcome[r].bundle)
        /\ response[r].status_code = 200 => FullBundle(response[r].content)
        /\ response[r].content # NoBundle => FullBundle(response[r].content)

C7_Witness ==
    \E r \in Reqs :
        /\ response[r].status_code = 200
        /\ response[r].content.statistics.total_voxels = 3

\* the paths request r staged, mounted, resolved or read
Touched(r) ==
    {input_files[r][m] : m \in DOMAIN input_files[r]}
    \cup {file_paths[r][m] : m \in DOMAIN file_paths[r]}
    \cup ({mounts[r].input, mounts[r].output, prediction_path[r]} \ {NoPath})

\* C8: concurrent runs with distinct workspaces do not observe each
\* other's files: every path a run stages, mounts, resolves or reads lies
\* in its own workspace, and every file in its workspace was written by it
\* or by its own container, from its own uploads.
C8_WorkspaceIsolation ==
    \A r \in Reqs :
        /\ \A q \in Reqs \ {r} :
              temp_dir[r] # NoPath => temp_dir[q] # temp_dir[r]
        /\ \A p \in Touched(r) : Under(p, temp_dir[r])
        /\ temp_dir[r] # NoPath =>
              \A p \in DOMAIN files :
                  Under(p, temp_dir[r]) =>
                      files[p].by = r /\ files[p].data.origin = r
        /\ prediction_path[r] # NoPath =>
              files[prediction_path[r]].who = "container"

C8_Witness ==
    \E r \in Reqs : \E q \in Reqs \ {r} :
        /\ outcome[r].kind = "returned"
        /\ pc[q] = "wait"
        /\ Name(input_files[r]["t2w"]) = Name(input_files[q]["t2w"])

\* the directories the pipeline creates for the model to write into
OutputTree(r) ==
    { output_path(r),
      Join(output_path(r), "images"),
      Join(Join(output_path(r), "images"), "cspca-detection-map") }

\* C9: after staging and before the container starts, every directory of
\* the output tree the pipeline created is readable, writable and
\* searchable by owner, group and others.
C9_OutputTreeWritable ==
    \A r \in Reqs :
        pc[r] = "launch" => \A d \in OutputTree(r) : dirs[d] = S_IRWXUGO

\* C10: a request with an upload whose name does not end in .mha, .nii.gz
\* or .nii is answered with status 400, before any upload is saved and
\* before inference starts.
C10_InvalidExtension400 ==
    \A r \in Reqs :
        ( /\ pc[r] = "done"
          /\ \E m \in ModalitySet : ~ValidFilename(request[r].filename[m]) )
        => /\ response[r].status_code = 400
           /\ file_paths[r] = << >>
           /\ stages[r] = << >>

\* C11: for every triple of upload names with valid extensions, also when
\* two or three uploads share a name, the source path handed to the pipeline
\* for each modality holds that modality's own upload when inference starts.
C11_SourceHoldsOwnUpload ==
    \A r \in Reqs :
        pc[r] = "probe" =>
            \A m \in ModalitySet :
                /\ file_paths[r][m] \in DOMAIN files
                /\ files[file_paths[r][m]].data = UploadData(r, m)

====
